---- MODULE Spec2Model ----
(***************************************************************************)
(* Model of scripts/update_data.py: the daily data updater.  Dates are day *)
(* numbers (ISO strings compare as their days do); the meta table, the     *)
(* data tables and the upstream series are the state; every updater is one *)
(* action that performs the whole routine and records its I/O in `run`.    *)
(***************************************************************************)
EXTENDS Integers, Sequences, FiniteSets

VARIABLES
  today,      \* TODAY of the running process (line 25)
  feed,       \* the series the upstream endpoints serve, in upstream order
  meta,       \* table "meta": source -> last_date (NoDate when absent)
  tables,     \* the data tables: table name -> set of stored keys
  pc,         \* position of main: "loop", "exited"
  idx,        \* index into `updaters` of the next updater to invoke
  errors,     \* main's list `errors`
  invoked,    \* the calls fn() of this process in order: name and whether it raised
  exitCode,   \* process exit status once pc = "exited" (-1 before)
  run,        \* log of the last updater invocation
  prev,       \* updater -> its previous invocation met no fault and saw this feed
              \* (under SpecCrash: the log of the interrupted invocation)
  runNo,      \* number of the current process run
  faults      \* faults the environment may still inject

vars == <<today, feed, meta, tables, pc, idx, errors, invoked, exitCode,
          run, prev, runNo, faults>>

-----------------------------------------------------------------------------
(* Bounds of the model *)

NumDays == 2        \* calendar days the process may run on / records may carry
MaxFeed == 2        \* records in an upstream series of the orchestrated runs
MaxRuns == 2        \* process runs in one behaviour
MaxFaults == 1      \* injected faults in one behaviour
MaxPages == 2       \* full pages an upstream window of the paginated fetches holds
MaxBatches == 2     \* full batches an input of upsert_batch holds

(* Program constants *)

BATCH_SIZE == 500
MOEX_PAGE_SIZE == 100
NoDate == 0                       \* get_last_date returning None
DEFAULT_FROM == 1                 \* "2013-01-01"
KeyRateSeedLen == 27
KEY_RATE_SEED == [k \in 1..KeyRateSeedLen |-> DEFAULT_FROM + k]

FirstDay == DEFAULT_FROM + KeyRateSeedLen + 1
Days == FirstDay..(FirstDay + NumDays - 1)

NoVal == <<>>                     \* a null field of an upstream record
Val(v) == <<v>>
Rejected(v) == v = NoVal \/ v[1] <= 0      \* `not x or x <= 0`

Last(s) == s[Len(s)]
Min(a, b) == IF a < b THEN a ELSE b

\* list comprehension [r for r in s if r in keep]
Filter(s, keep) == SelectSeq(s, LAMBDA r : r \in keep)

Range(s) == {s[k] : k \in DOMAIN s}

-----------------------------------------------------------------------------
(* Faults: what can go wrong in one invocation *)

NoFault == [kind |-> "none", at |-> 0]
HttpFault(n) == [kind |-> "http", at |-> n]      \* the n-th request fails
SchemaFault == [kind |-> "schema", at |-> 0]     \* the primary column is absent
WriteFault(n) == [kind |-> "write", at |-> n]    \* the n-th batch write fails
\* the process is killed after the data upsert, before the watermark write
CrashFault == [kind |-> "crash", at |-> 0]

-----------------------------------------------------------------------------
(* Watermark store *)

get_last_date(m, source) == m[source]

set_last_date(m, source, last_date) == [m EXCEPT ![source] = last_date]

-----------------------------------------------------------------------------
(* Batched upsert sink *)

RECURSIVE Batches(_, _)
\* the slices rows[i : i + BATCH_SIZE] for i in range(0, len(rows), BATCH_SIZE)
Batches(rows, size) ==
  IF rows = <<>> THEN <<>>
  ELSE <<SubSeq(rows, 1, Min(size, Len(rows)))>>
       \o Batches(SubSeq(rows, Min(size, Len(rows)) + 1, Len(rows)), size)

\* mutant: the pacing delay follows every batch
PauseAfterEvery(k, batches) == TRUE

\* line 62: `i + BATCH_SIZE < len(rows)`, a batch follows the k-th one
PauseAfter(k, batches) == k < Len(batches)

RECURSIVE UpsertFrom(_, _, _, _, _)
UpsertFrom(table, batches, k, fault, acc) ==
  IF k > Len(batches) THEN acc
  ELSE IF fault.kind = "write" /\ fault.at = k
       THEN [acc EXCEPT !.io = Append(@, [op |-> "upsert_failed", table |-> table]),
                        !.raised = TRUE]
       ELSE LET wrote == [acc EXCEPT
                  !.keys = @ \cup Range(batches[k]),
                  !.io = Append(@, [op |-> "upsert", table |-> table,
                                    rows |-> batches[k]])]
            IN UpsertFrom(table, batches, k + 1, fault,
                  IF PauseAfter(k, batches)
                  THEN [wrote EXCEPT !.io = Append(@, [op |-> "sleep", what |-> "BATCH_DELAY"])]
                  ELSE wrote)

\* upsert_batch(table, rows) on a table holding `keys`; the rows are their keys
upsert_batch(table, keys, rows, fault) ==
  UpsertFrom(table, Batches(rows, BATCH_SIZE), 1, fault,
             [keys |-> keys, io |-> <<>>, raised |-> FALSE])

-----------------------------------------------------------------------------
(* Paginated fetcher *)

\* the records of the series dated within [from_, to], in upstream order
Window(series, from_, to) ==
  SelectSeq(series, LAMBDA r : r.date >= from_ /\ r.date <= to)

\* the page the endpoint serves at offset `start`
UpstreamPage(series, from_, to, start) ==
  LET w == Window(series, from_, to)
  IN SubSeq(w, start + 1, Min(start + MOEX_PAGE_SIZE, Len(w)))

\* mutant: a zero value is accepted (`< 0` for `<= 0`)
parse_row_accepting_zero(rec) ==
  IF rec.val = NoVal \/ rec.val[1] < 0 THEN NoVal ELSE Val(rec.date)

\* the closures `parse`: the row of a record, or NoVal when it is rejected
parse_row(rec) == IF Rejected(rec.val) THEN NoVal ELSE Val(rec.date)

\* mutant: the first rejected record ends the parse of the page
ParsePageUntilRejected(data) ==
  LET bad == {i \in DOMAIN data : parse_row(data[i]) = NoVal}
      read == IF bad = {} THEN data
              ELSE SubSeq(data, 1, (CHOOSE i \in bad : \A j \in bad : i <= j) - 1)
  IN [i \in DOMAIN read |-> read[i].date]

\* lines 79-82: every record of the page is parsed, the results that are not
\* None are appended in order
ParsePage(data) ==
  LET parsed == [i \in DOMAIN data |-> parse_row(data[i])]
      kept == SelectSeq(parsed, LAMBDA x : x # NoVal)
  IN [i \in DOMAIN kept |-> kept[i][1]]

\* mutant: a page without a valid row ends the loop
PageEmptyOfValid(data) == ParsePage(data) = <<>>

\* line 76: `if not data`
PageEmpty(data) == data = <<>>

\* mutant: a page of exactly the page size ends the loop (`<=` for `<`)
MorePagesOffByOne(data) == ~ (Len(data) <= MOEX_PAGE_SIZE)

\* line 83: the loop goes on after this page
MorePages(data) == ~ (Len(data) < MOEX_PAGE_SIZE)

RECURSIVE FetchFrom(_, _, _, _, _, _, _)
FetchFrom(series, from_, to, fault, start, all_rows, io) ==
  LET io1 == Append(io, [op |-> "GET", start |-> start])
      data == UpstreamPage(series, from_, to, start)
  IN IF fault.kind = "http" /\ fault.at = Len(SelectSeq(io1, LAMBDA e : e.op = "GET"))
     THEN [rows |-> <<>>, io |-> io1, raised |-> TRUE]
     ELSE IF PageEmpty(data)
     THEN [rows |-> all_rows, io |-> io1, raised |-> FALSE]
     ELSE IF fault.kind = "schema"
     THEN [rows |-> <<>>, io |-> io1, raised |-> TRUE]
     ELSE LET rows1 == all_rows \o ParsePage(data)
          IN IF ~ MorePages(data)
             THEN [rows |-> rows1, io |-> io1, raised |-> FALSE]
             ELSE FetchFrom(series, from_, to, fault, start + MOEX_PAGE_SIZE, rows1,
                            Append(io1, [op |-> "sleep", what |-> "MOEX_DELAY"]))

fetch_moex_paginated(series, from_, to, fault) ==
  FetchFrom(series, from_, to, fault, 0, <<>>, <<>>)

\* mutant: the window starts on the watermark day itself
incremental_dates_from_last(m, source, day) ==
  LET last == get_last_date(m, source)
  IN [from_ |-> IF last # NoDate THEN last ELSE DEFAULT_FROM, to |-> day]

\* incremental_dates(source): the window (from_date, TODAY)
incremental_dates(m, source, day) ==
  LET last == get_last_date(m, source)
  IN [from_ |-> IF last # NoDate THEN last + 1 ELSE DEFAULT_FROM, to |-> day]

-----------------------------------------------------------------------------
(* Updaters.  Each yields the effect of one invocation: the meta table and *)
(* the data tables it leaves, its I/O in program order, whether it raised  *)
(* to its caller, the rows it produced and the window it computed.         *)

Row(k, d) == [k |-> k, d |-> d]

Rows(k, dates) == [i \in DOMAIN dates |-> Row(k, dates[i])]

\* the date fields of the records, in order
Dates(data) == [i \in DOMAIN data |-> data[i].date]

NoWindow == [from_ |-> NoDate, to |-> NoDate]

Effect(m, t, io, raised, rows, w, skipped) ==
  [meta |-> m, tables |-> t, io |-> io, raised |-> raised, rows |-> rows,
   window |-> w, skipped |-> skipped]

ReadMark(source) == [op |-> "get_last_date", source |-> source]
WriteMark(source, d) == [op |-> "set_last_date", source |-> source, date |-> d]
Get(n) == [op |-> "GET", start |-> n]
Sleep(what) == [op |-> "sleep", what |-> what]
Killed == [op |-> "killed"]

\* the watermark the paginated and the one-shot updaters write: rows[-1]'s date
MarkOf(rows) == Last(rows).d

\* mutant: the watermark is written whether or not there are rows
PersistUnguarded(m, t, source, table, rows, mark, fault, io, w) ==
  LET u == upsert_batch(table, t[table], rows, fault)
      t1 == [t EXCEPT ![table] = u.keys]
  IN IF u.raised
     THEN Effect(m, t1, io \o u.io, TRUE, rows, w, FALSE)
     ELSE Effect(set_last_date(m, source, mark), t1,
                 (io \o u.io) \o <<WriteMark(source, mark)>>, FALSE, rows, w, FALSE)

\* `if rows: upsert_batch(table, rows); set_last_date(source, mark)`
Persist(m, t, source, table, rows, mark, fault, io, w) ==
  IF rows = <<>>
  THEN Effect(m, t, io, FALSE, rows, w, FALSE)
  ELSE LET u == upsert_batch(table, t[table], rows, fault)
           t1 == [t EXCEPT ![table] = u.keys]
       IN IF u.raised
          THEN Effect(m, t1, io \o u.io, TRUE, rows, w, FALSE)
          ELSE IF fault.kind = "crash"
          THEN Effect(m, t1, (io \o u.io) \o <<Killed>>, TRUE, rows, w, FALSE)
          ELSE Effect(set_last_date(m, source, mark), t1,
                      (io \o u.io) \o <<WriteMark(source, mark)>>,
                      FALSE, rows, w, FALSE)

\* mutant: when a page request fails the rows of the first page are persisted
PaginatedUpdaterKeepingPages(m, t, series, day, fault, source, table, k) ==
  LET w == incremental_dates(m, source, day)
      io0 == <<ReadMark(source)>>
  IN IF w.from_ > w.to
     THEN Effect(m, t, io0, FALSE, <<>>, w, TRUE)
     ELSE LET f == fetch_moex_paginated(series, w.from_, w.to, fault)
              rows == Rows(k, IF f.raised
                              THEN ParsePage(UpstreamPage(series, w.from_, w.to, 0))
                              ELSE f.rows)
          IN Persist(m, t, source, table, rows,
                     IF rows = <<>> THEN NoDate ELSE MarkOf(rows),
                     fault, io0 \o f.io, w)

\* update_moex_stock_history, update_index_history(ticker), update_trading_volumes
PaginatedUpdater(m, t, series, day, fault, source, table, k) ==
  LET w == incremental_dates(m, source, day)
      io0 == <<ReadMark(source)>>
  IN IF w.from_ > w.to
     THEN Effect(m, t, io0, FALSE, <<>>, w, TRUE)
     ELSE LET f == fetch_moex_paginated(series, w.from_, w.to, fault)
          IN IF f.raised
             THEN Effect(m, t, io0 \o f.io, TRUE, <<>>, w, FALSE)
             ELSE LET rows == Rows(k, f.rows)
                  IN Persist(m, t, source, table, rows,
                             IF rows = <<>> THEN NoDate ELSE MarkOf(rows),
                             fault, io0 \o f.io, w)

update_moex_stock_history(m, t, series, day, fault) ==
  PaginatedUpdater(m, t, series, day, fault,
                   "moex_stock_history", "moex_stock_history", "")

update_index_history(ticker, m, t, series, day, fault) ==
  PaginatedUpdater(m, t, series, day, fault,
                   "index_history_" \o ticker, "index_history", ticker)

update_trading_volumes(m, t, series, day, fault) ==
  PaginatedUpdater(m, t, series, day, fault,
                   "trading_volumes", "trading_volumes", "")

\* the quote the live endpoint serves: the date of the newest record
LiveQuote(series) == IF series = <<>> THEN NoDate ELSE Last(series).date

\* mutant: the watermark is written before the row is upserted
update_moex_live_mark_first(m, t, series, day, fault) ==
  LET source == "moex_live"
      row_data == Row("1", LiveQuote(series))
  IN IF fault.kind \in {"http", "schema"}
     THEN Effect(m, t, <<Get(0)>>, TRUE, <<>>, NoWindow, FALSE)
     ELSE Effect(set_last_date(m, source, day), [t EXCEPT ![source] = {row_data}],
                 <<Get(0), Get(0), WriteMark(source, day),
                   [op |-> "upsert", table |-> source, rows |-> <<row_data>>]>>,
                 FALSE, <<row_data>>, NoWindow, FALSE)

update_moex_live(m, t, series, day, fault) ==
  LET source == "moex_live"
  IN IF fault.kind = "http" /\ fault.at = 1
     THEN Effect(m, t, <<Get(0)>>, TRUE, <<>>, NoWindow, FALSE)
     ELSE IF fault.kind = "schema" \/ (fault.kind = "http" /\ fault.at = 2)
     THEN Effect(m, t, <<Get(0), Get(0)>>, TRUE, <<>>, NoWindow, FALSE)
     ELSE LET row_data == Row("1", LiveQuote(series))
              io1 == <<Get(0), Get(0)>>
          IN IF fault.kind = "write"
             THEN Effect(m, t, Append(io1, [op |-> "upsert_failed", table |-> source]),
                         TRUE, <<row_data>>, NoWindow, FALSE)
             ELSE IF fault.kind = "crash"
             THEN Effect(m, [t EXCEPT ![source] = {row_data}],
                         io1 \o <<[op |-> "upsert", table |-> source, rows |-> <<row_data>>],
                                  Killed>>,
                         TRUE, <<row_data>>, NoWindow, FALSE)
             ELSE Effect(set_last_date(m, source, day),
                         [t EXCEPT ![source] = {row_data}],
                         io1 \o <<[op |-> "upsert", table |-> source, rows |-> <<row_data>>],
                                  WriteMark(source, day)>>,
                         FALSE, <<row_data>>, NoWindow, FALSE)

\* the dividends kept: `if row[ri] and row[vi]`
Truthy(data) == Dates(SelectSeq(data, LAMBDA r : r.val # NoVal /\ r.val[1] # 0))

update_moex_dividends(m, t, series, day, fault) ==
  LET source == "moex_dividends"
      io1 == <<Get(0)>>
  IN IF fault.kind = "http" \/ (fault.kind = "schema" /\ series # <<>>)
     THEN Effect(m, t, io1, TRUE, <<>>, NoWindow, FALSE)
     ELSE LET divs == Rows("", Truthy(series))
          IN Persist(m, t, source, source, divs,
                     IF divs = <<>> THEN NoDate ELSE MarkOf(divs), fault, io1, NoWindow)

update_currency_history(m, t, series, day, fault) ==
  LET source == "currency_history"
      w == incremental_dates(m, source, day)
      io0 == <<ReadMark(source)>>
  IN IF w.from_ > w.to
     THEN Effect(m, t, io0, FALSE, <<>>, w, TRUE)
     ELSE LET data == Window(series, w.from_, w.to)
              io1 == Append(io0, Get(0))
          IN IF fault.kind = "http" \/ (fault.kind = "schema" /\ data # <<>>)
             THEN Effect(m, t, io1, TRUE, <<>>, w, FALSE)
             ELSE LET rows == Rows("USD/RUB", Dates(data))
                  IN Persist(m, t, source, source, rows,
                             IF rows = <<>> THEN NoDate ELSE MarkOf(rows), fault, io1, w)

\* the records whose value parses as a number > 0
Positive(data) == Dates(SelectSeq(data, LAMBDA r : ~ Rejected(r.val)))

update_brent_history(m, t, series, day, fault) ==
  LET source == "brent_history"
      last == get_last_date(m, source)
      from_date == IF last # NoDate THEN last ELSE DEFAULT_FROM
      io1 == <<ReadMark(source), Get(0)>>
      w == [from_ |-> from_date, to |-> NoDate]
  IN IF fault.kind = "http"
     THEN Effect(m, t, io1, TRUE, <<>>, w, FALSE)
     ELSE LET found == Positive(Filter(series, {r \in Range(series) : r.date >= from_date}))
              newer == IF last # NoDate
                       THEN Filter(found, {d \in Range(found) : d > last}) ELSE found
              rows == Rows("", newer)
          IN Persist(m, t, source, source, rows,
                     IF rows = <<>> THEN NoDate ELSE MarkOf(rows), fault, io1, w)

\* `if item.get("value") is not None`
NotNull(data) == Dates(SelectSeq(data, LAMBDA r : r.val # NoVal))

indicators == <<"NY.GDP.MKTP.CD", "FP.CPI.TOTL.ZG">>

RECURSIVE WorldBankItems(_, _, _, _, _)
WorldBankItems(n, series, day, fault, acc) ==
  IF n > Len(indicators) THEN acc
  ELSE LET io1 == Append(acc.io, Get(0))
       IN IF (fault.kind = "http" /\ fault.at = n) \/ fault.kind = "schema"
          THEN WorldBankItems(n + 1, series, day, fault,
                 [acc EXCEPT !.io = io1, !.failed = @ \cup {n}])
          ELSE WorldBankItems(n + 1, series, day, fault,
                 [acc EXCEPT
                    !.rows = @ \o Rows(indicators[n],
                                       NotNull(Window(series, DEFAULT_FROM, day))),
                    !.io = Append(io1, Sleep("item"))])

update_world_bank(m, t, series, day, fault) ==
  LET source == "world_bank_indicators"
      got == WorldBankItems(1, series, day, fault,
                            [rows |-> <<>>, io |-> <<>>, failed |-> {}])
  IN Persist(m, t, source, source, got.rows, day, fault, got.io, NoWindow)

exchanges == <<"ICE", "CME", "HKEX", "LSEG", "DB1">>

\* lines 397-407: float() of a null close raises and ends the item, keeping the
\* rows appended so far
ParseLines(data) ==
  LET nulls == {i \in DOMAIN data : data[i].val = NoVal}
      read == IF nulls = {} THEN data
              ELSE SubSeq(data, 1, (CHOOSE i \in nulls : \A j \in nulls : i <= j) - 1)
  IN [dates |-> Dates(SelectSeq(read, LAMBDA r : r.val[1] > 0)),
      raised |-> nulls # {}]

RECURSIVE ExchangeItems(_, _, _, _, _, _)
\* mutant: the failure of one exchange ends the loop over the exchanges
ExchangeItemsStopping(n, series, from_date, day, fault, acc) ==
  IF n > Len(exchanges) THEN acc
  ELSE LET io1 == Append(acc.io, Get(0))
       IN IF fault.kind = "http" /\ fault.at = n
          THEN [acc EXCEPT !.io = io1, !.failed = @ \cup {n}]
          ELSE LET p == ParseLines(Window(series, from_date, day))
               IN ExchangeItems(n + 1, series, from_date, day, fault,
                    [acc EXCEPT
                       !.rows = @ \o Rows(exchanges[n], p.dates),
                       !.io = IF p.raised THEN io1 ELSE Append(io1, Sleep("item")),
                       !.failed = IF p.raised THEN @ \cup {n} ELSE @])

ExchangeItems(n, series, from_date, day, fault, acc) ==
  IF n > Len(exchanges) THEN acc
  ELSE LET io1 == Append(acc.io, Get(0))
       IN IF fault.kind = "http" /\ fault.at = n
          THEN ExchangeItems(n + 1, series, from_date, day, fault,
                 [acc EXCEPT !.io = io1, !.failed = @ \cup {n}])
          ELSE LET p == ParseLines(Window(series, from_date, day))
               IN ExchangeItems(n + 1, series, from_date, day, fault,
                    [acc EXCEPT
                       !.rows = @ \o Rows(exchanges[n], p.dates),
                       !.io = IF p.raised THEN io1 ELSE Append(io1, Sleep("item")),
                       !.failed = IF p.raised THEN @ \cup {n} ELSE @])

update_global_exchanges(m, t, series, day, fault) ==
  LET source == "global_exchanges"
      last == get_last_date(m, source)
      from_date == IF last # NoDate THEN last ELSE DEFAULT_FROM
      got == ExchangeItems(1, series, from_date, day, fault,
                           [rows |-> <<>>, io |-> <<ReadMark(source)>>, failed |-> {}])
  IN Persist(m, t, source, source, got.rows, day, fault, got.io,
             [from_ |-> from_date, to |-> day])

\* rows = [{"effective_date": d, "rate": r} for d, r in KEY_RATE_SEED]
SeedRows == [n \in 1..KeyRateSeedLen |-> Row("", KEY_RATE_SEED[n])]

\* mutant: the seed is written whether or not the table holds rows
update_key_rates_unguarded(m, t, series, day, fault) ==
  Persist(m, t, "key_rates", "key_rates", SeedRows,
          KEY_RATE_SEED[KeyRateSeedLen], fault, <<[op |-> "select", table |-> "key_rates"]>>,
          NoWindow)

update_key_rates(m, t, series, day, fault) ==
  LET source == "key_rates"
      io1 == <<[op |-> "select", table |-> source]>>
  IN IF t[source] # {}
     THEN Effect(m, t, io1, FALSE, <<>>, NoWindow, TRUE)
     ELSE Persist(m, t, source, source, SeedRows,
                  KEY_RATE_SEED[KeyRateSeedLen], fault, io1, NoWindow)

-----------------------------------------------------------------------------
(* main *)

updaters == <<"moex_stock_history", "moex_live", "moex_dividends",
              "index_history/IMOEX", "index_history/RTSI", "currency_history",
              "brent_history", "trading_volumes", "world_bank", "global_exchanges",
              "key_rates">>

Sources == {"moex_stock_history", "moex_live", "moex_dividends",
            "index_history_IMOEX", "index_history_RTSI", "currency_history",
            "brent_history", "trading_volumes", "world_bank_indicators",
            "global_exchanges", "key_rates"}

TableNames == {"moex_stock_history", "moex_live", "moex_dividends", "index_history",
               "currency_history", "brent_history", "trading_volumes",
               "world_bank_indicators", "global_exchanges", "key_rates"}

\* the source whose meta row the updater named n maintains
SourceOf(n) ==
  CASE n = "index_history/IMOEX" -> "index_history_IMOEX"
    [] n = "index_history/RTSI" -> "index_history_RTSI"
    [] n = "world_bank" -> "world_bank_indicators"
    [] OTHER -> n

\* mutant: no try/except around fn(), an exception ends the loop
AfterCallUncaught(k, raised) == IF raised THEN Len(updaters) + 1 ELSE k + 1

\* the loop of lines 450-456: the exception of fn() is caught, the loop goes on
AfterCall(k, raised) == k + 1

\* mutant: only the latest failure is kept
CatchLatest(errs, name, raised) == IF raised THEN <<name>> ELSE errs

\* lines 454-456: the name of a raising updater is appended to `errors`
Catch(errs, name, raised) == IF raised THEN Append(errs, name) ELSE errs

\* lines 458-462
ExitStatus(errs) == IF errs # <<>> THEN 1 ELSE 0

NoRun == [name |-> "", io |-> <<>>, raised |-> FALSE, rows |-> <<>>,
          window |-> NoWindow, skipped |-> FALSE, metaBefore |-> <<>>,
          tablesBefore |-> <<>>, fault |-> NoFault, repeat |-> FALSE]

\* the table `updaters` of lines 435-447: the routine behind the k-th entry
Call(k, m, t, series, day, fault) ==
  CASE k = 1 -> update_moex_stock_history(m, t, series, day, fault)
    [] k = 2 -> update_moex_live(m, t, series, day, fault)
    [] k = 3 -> update_moex_dividends(m, t, series, day, fault)
    [] k = 4 -> update_index_history("IMOEX", m, t, series, day, fault)
    [] k = 5 -> update_index_history("RTSI", m, t, series, day, fault)
    [] k = 6 -> update_currency_history(m, t, series, day, fault)
    [] k = 7 -> update_brent_history(m, t, series, day, fault)
    [] k = 8 -> update_trading_volumes(m, t, series, day, fault)
    [] k = 9 -> update_world_bank(m, t, series, day, fault)
    [] k = 10 -> update_global_exchanges(m, t, series, day, fault)
    [] k = 11 -> update_key_rates(m, t, series, day, fault)

\* the exceptions the k-th routine can meet: a failing request (ordinal n), an
\* absent column, a failing batch write (ordinal n)
FaultsOf(k) ==
  CASE k \in {1, 4, 5, 8} -> {NoFault, HttpFault(1), HttpFault(2), SchemaFault, WriteFault(1)}
    [] k = 2 -> {NoFault, HttpFault(1), HttpFault(2), WriteFault(1)}
    [] k \in {3, 6} -> {NoFault, HttpFault(1), SchemaFault, WriteFault(1)}
    [] k = 7 -> {NoFault, HttpFault(1), WriteFault(1)}
    [] k = 9 -> {NoFault, WriteFault(1)} \cup {HttpFault(n) : n \in DOMAIN indicators}
    [] k = 10 -> {NoFault, WriteFault(1)} \cup {HttpFault(n) : n \in DOMAIN exchanges}
    [] k = 11 -> {NoFault, WriteFault(1)}

\* lines 450-456 around fn(): the effect e of the call is applied, its exception
\* is caught and recorded (e0 is the effect when nothing fails: a fault counts
\* only when the invocation meets it)
Step(k, e, e0, fault) ==
  /\ fault # NoFault => e # e0
  /\ faults' = IF fault # NoFault THEN faults - 1 ELSE faults
  /\ meta' = e.meta
  /\ tables' = e.tables
  /\ errors' = Catch(errors, updaters[k], e.raised)
  /\ invoked' = Append(invoked, [name |-> updaters[k], raised |-> e.raised])
  /\ idx' = AfterCall(k, e.raised)
  /\ run' = [name |-> updaters[k], io |-> e.io, raised |-> e.raised,
             rows |-> e.rows, window |-> e.window, skipped |-> e.skipped,
             metaBefore |-> meta, tablesBefore |-> tables, fault |-> fault,
             repeat |-> prev[updaters[k]]]
  /\ prev' = [prev EXCEPT ![updaters[k]] = (fault = NoFault)]
  /\ UNCHANGED <<today, feed, pc, exitCode, runNo>>

\* one turn of the loop of lines 450-456 for the k-th updater
Invoke(k, fault) ==
  /\ fault # NoFault => faults > 0
  /\ LET e0 == Call(k, meta, tables, feed, today, NoFault)
     IN Step(k, IF fault = NoFault THEN e0
                ELSE Call(k, meta, tables, feed, today, fault), e0, fault)

MoexStockHistory ==
  /\ pc = "loop"
  /\ idx = 1
  /\ \E f \in FaultsOf(1) : Invoke(1, f)

MoexLive ==
  /\ pc = "loop"
  /\ idx = 2
  /\ \E f \in FaultsOf(2) : Invoke(2, f)

MoexDividends ==
  /\ pc = "loop"
  /\ idx = 3
  /\ \E f \in FaultsOf(3) : Invoke(3, f)

IndexHistoryIMOEX ==
  /\ pc = "loop"
  /\ idx = 4
  /\ \E f \in FaultsOf(4) : Invoke(4, f)

IndexHistoryRTSI ==
  /\ pc = "loop"
  /\ idx = 5
  /\ \E f \in FaultsOf(5) : Invoke(5, f)

CurrencyHistory ==
  /\ pc = "loop"
  /\ idx = 6
  /\ \E f \in FaultsOf(6) : Invoke(6, f)

BrentHistory ==
  /\ pc = "loop"
  /\ idx = 7
  /\ \E f \in FaultsOf(7) : Invoke(7, f)

TradingVolumes ==
  /\ pc = "loop"
  /\ idx = 8
  /\ \E f \in FaultsOf(8) : Invoke(8, f)

WorldBank ==
  /\ pc = "loop"
  /\ idx = 9
  /\ \E f \in FaultsOf(9) : Invoke(9, f)

GlobalExchanges ==
  /\ pc = "loop"
  /\ idx = 10
  /\ \E f \in FaultsOf(10) : Invoke(10, f)

KeyRates ==
  /\ pc = "loop"
  /\ idx = 11
  /\ \E f \in FaultsOf(11) : Invoke(11, f)

\* lines 458-462: the loop is over
MainExit ==
  /\ pc = "loop"
  /\ idx > Len(updaters)
  /\ pc' = "exited"
  /\ exitCode' = ExitStatus(errors)
  /\ UNCHANGED <<today, feed, meta, tables, idx, errors, invoked, run, prev, runNo, faults>>

-----------------------------------------------------------------------------
(* The environment: the upstream series and the scheduler *)

FeedVals == {NoVal, Val(0), Val(1)}

Records == [date : Days, val : FeedVals]

DistinctDates(s) == \A a, b \in DOMAIN s : a # b => s[a].date # s[b].date

Feeds ==
  {s \in UNION {[1..n -> Records] : n \in 0..MaxFeed} : DistinctDates(s)}

\* an upstream series holds no record dated after the day it is read
Published(s, day) == \A k \in DOMAIN s : s[k].date <= day

\* what the upstream may serve at the next run: the same series, one record more,
\* or its newest record withdrawn
NextFeeds(s) ==
  {s} \cup {Append(s, r) : r \in {x \in Records : Len(s) < MaxFeed
                                     /\ \A k \in DOMAIN s : s[k].date # x.date}}
      \cup {SubSeq(s, 1, Len(s) - 1) : x \in {y \in {1} : s # <<>>}}

\* the scheduler starts the script again, the same day or later
NextRun ==
  /\ pc = "exited"
  /\ runNo < MaxRuns
  /\ runNo' = runNo + 1
  /\ today' \in {d \in Days : d = today \/ d = today + 1}
  /\ feed' \in {s \in NextFeeds(feed) : Published(s, today')}
  /\ prev' = IF feed' = feed THEN prev ELSE [n \in Range(updaters) |-> FALSE]
  /\ pc' = "loop"
  /\ idx' = 1
  /\ errors' = <<>>
  /\ invoked' = <<>>
  /\ exitCode' = -1
  /\ run' = NoRun
  /\ UNCHANGED <<meta, tables, faults>>

Init ==
  /\ today \in Days
  /\ feed \in {s \in Feeds : Published(s, today)}
  /\ meta = [s \in Sources |-> NoDate]
  /\ tables = [n \in TableNames |-> {}]
  /\ pc = "loop"
  /\ idx = 1
  /\ errors = <<>>
  /\ invoked = <<>>
  /\ exitCode = -1
  /\ run = NoRun
  /\ prev = [n \in Range(updaters) |-> FALSE]
  /\ runNo = 1
  /\ faults = MaxFaults

Next ==
  \/ MoexStockHistory
  \/ MoexLive
  \/ MoexDividends
  \/ IndexHistoryIMOEX
  \/ IndexHistoryRTSI
  \/ CurrencyHistory
  \/ BrentHistory
  \/ TradingVolumes
  \/ WorldBank
  \/ GlobalExchanges
  \/ KeyRates
  \/ MainExit
  \/ NextRun

Spec == Init /\ [][Next]_vars

\* One run of main in which every updater may meet a fault
InitMain ==
  /\ today = FirstDay + 1
  /\ feed = <<[date |-> FirstDay, val |-> Val(1)]>>
  /\ meta = [s \in Sources |-> NoDate]
  /\ tables = [n \in TableNames |-> {}]
  /\ pc = "loop"
  /\ idx = 1
  /\ errors = <<>>
  /\ invoked = <<>>
  /\ exitCode = -1
  /\ run = NoRun
  /\ prev = [n \in Range(updaters) |-> FALSE]
  /\ runNo = 1
  /\ faults = Len(updaters)

NextMain ==
  \/ MoexStockHistory
  \/ MoexLive
  \/ MoexDividends
  \/ IndexHistoryIMOEX
  \/ IndexHistoryRTSI
  \/ CurrencyHistory
  \/ BrentHistory
  \/ TradingVolumes
  \/ WorldBank
  \/ GlobalExchanges
  \/ KeyRates
  \/ MainExit

SpecMain == InitMain /\ [][NextMain]_vars

-----------------------------------------------------------------------------
(* The paginated fetcher on windows of several pages *)

\* the j-th value a parser rejects: null, zero, negative in turn
Bad(j) ==
  CASE j % 3 = 0 -> NoVal
    [] j % 3 = 1 -> Val(0)
    [] OTHER -> Val(-1)

\* a series of n records, dated upward or downward from FirstDay, every m-th
\* record (m = 0: none) and the first p records carrying a rejected value
PagedFeed(n, upward, m, p) ==
  [i \in 1..n |->
     [date |-> IF upward THEN FirstDay + i - 1 ELSE FirstDay + n - i,
      val |-> IF m > 0 /\ i % m = 0 THEN Bad(i \div m)
              ELSE IF i <= p THEN Bad(i)
              ELSE Val(1)]]

\* the sources of the paginated updaters, their tables and key qualifiers
PagedSources == {"moex_stock_history", "index_history_IMOEX", "index_history_RTSI",
                 "trading_volumes"}

PagedTable(s) ==
  IF s \in {"index_history_IMOEX", "index_history_RTSI"} THEN "index_history" ELSE s

PagedKey(s) ==
  CASE s = "index_history_IMOEX" -> "IMOEX"
    [] s = "index_history_RTSI" -> "RTSI"
    [] OTHER -> ""

PagedSizes ==
  {k * MOEX_PAGE_SIZE + r : k \in 0..MaxPages, r \in {0, 1, MOEX_PAGE_SIZE - 1}}

InitFetch ==
  /\ \E n \in PagedSizes, upward \in BOOLEAN, m \in {0, 1, 2, 7},
        p \in {0, MOEX_PAGE_SIZE} :
       /\ feed = PagedFeed(n, upward, m, p)
       /\ today = FirstDay + n
  /\ \E last \in {NoDate, FirstDay} :
       /\ meta = [s \in Sources |-> IF s \in PagedSources THEN last ELSE NoDate]
       /\ tables = [n \in TableNames |->
                      IF last = NoDate THEN {}
                      ELSE {Row(PagedKey(s), last) : s \in {x \in PagedSources : PagedTable(x) = n}}]
  /\ pc = "fetch"
  /\ idx = 1
  /\ errors = <<>>
  /\ invoked = <<>>
  /\ exitCode = -1
  /\ run = NoRun
  /\ prev = [n \in Range(updaters) |-> FALSE]
  /\ runNo = 1
  /\ faults \in {0, 1}

\* the call of lines 119-123: fetch_moex_paginated on the window of the source
FetchCall ==
  \E f \in {NoFault, SchemaFault} \cup {HttpFault(n) : n \in 1..(MaxPages + 1)} :
    LET w == incremental_dates(meta, "moex_stock_history", today)
        r == fetch_moex_paginated(feed, w.from_, w.to, f)
    IN /\ pc = "fetch"
       /\ f # NoFault =>
            faults > 0 /\ r # fetch_moex_paginated(feed, w.from_, w.to, NoFault)
       /\ faults' = IF f # NoFault THEN faults - 1 ELSE faults
       /\ pc' = "fetched"
       /\ run' = [NoRun EXCEPT !.name = "fetch_moex_paginated", !.io = r.io,
                               !.rows = r.rows, !.raised = r.raised,
                               !.window = w, !.fault = f]
       /\ UNCHANGED <<today, feed, meta, tables, idx, errors, invoked, exitCode,
                      prev, runNo>>

\* a whole invocation of one of the paginated updaters on the same windows
PagedUpdate ==
  \E k \in {1, 4, 5, 8} :
    \E f \in {NoFault, SchemaFault, WriteFault(1)}
              \cup {HttpFault(n) : n \in 1..(MaxPages + 1)} :
      LET e == Call(k, meta, tables, feed, today, f)
      IN /\ pc = "fetch"
         /\ f # NoFault => faults > 0 /\ e # Call(k, meta, tables, feed, today, NoFault)
         /\ faults' = IF f # NoFault THEN faults - 1 ELSE faults
         /\ pc' = "updated"
         /\ meta' = e.meta
         /\ tables' = e.tables
         /\ run' = [name |-> updaters[k], io |-> e.io, raised |-> e.raised,
                    rows |-> e.rows, window |-> e.window, skipped |-> e.skipped,
                    metaBefore |-> meta, tablesBefore |-> tables, fault |-> f,
                    repeat |-> FALSE]
         /\ UNCHANGED <<today, feed, idx, errors, invoked, exitCode, prev, runNo>>

NextFetch ==
  \/ FetchCall
  \/ PagedUpdate

SpecFetch == InitFetch /\ [][NextFetch]_vars

-----------------------------------------------------------------------------
(* The batched sink on inputs of several batches *)

BatchedSizes ==
  {k * BATCH_SIZE + r : k \in 0..MaxBatches, r \in {0, 1, 200, BATCH_SIZE - 1}}

InitUpsert ==
  /\ \E n \in BatchedSizes :
       run = [NoRun EXCEPT !.name = "upsert_batch",
                           !.rows = [i \in 1..n |-> Row("", DEFAULT_FROM + i)]]
  /\ today = FirstDay
  /\ feed = <<>>
  /\ meta = [s \in Sources |-> NoDate]
  /\ \E held \in {{}, {Row("", DEFAULT_FROM + 1)}} :
       tables = [n \in TableNames |-> IF n = "moex_stock_history" THEN held ELSE {}]
  /\ pc = "upsert"
  /\ idx = 1
  /\ errors = <<>>
  /\ invoked = <<>>
  /\ exitCode = -1
  /\ prev = [n \in Range(updaters) |-> FALSE]
  /\ runNo = 1
  /\ faults \in {0, 1}

\* the call of line 125: upsert_batch(source, rows)
UpsertCall ==
  \E f \in {NoFault} \cup {WriteFault(n) : n \in 1..(MaxBatches + 1)} :
    LET table == "moex_stock_history"
        u == upsert_batch(table, tables[table], run.rows, f)
    IN /\ pc = "upsert"
       /\ f # NoFault => faults > 0 /\ u.raised
       /\ faults' = IF f # NoFault THEN faults - 1 ELSE faults
       /\ pc' = "upserted"
       /\ tables' = [tables EXCEPT ![table] = u.keys]
       /\ run' = [run EXCEPT !.io = u.io, !.raised = u.raised, !.fault = f,
                             !.metaBefore = meta, !.tablesBefore = tables]
       /\ UNCHANGED <<today, feed, meta, idx, errors, invoked, exitCode, prev, runNo>>

SpecUpsert == InitUpsert /\ [][UpsertCall]_vars

-----------------------------------------------------------------------------
(* One updater interrupted between its data upsert and its watermark write, *)
(* and invoked again by the next process run                                 *)

\* the log of the invocation of the updater under test with effect e
LogOf(e, fault) ==
  [name |-> updaters[idx], io |-> e.io, raised |-> e.raised, rows |-> e.rows,
   window |-> e.window, skipped |-> e.skipped, metaBefore |-> meta,
   tablesBefore |-> tables, fault |-> fault, repeat |-> FALSE]

InitCrash ==
  /\ today \in Days
  /\ feed \in {s \in Feeds : Published(s, today)}
  /\ meta = [s \in Sources |-> NoDate]
  /\ tables = [n \in TableNames |-> {}]
  /\ pc = "start"
  /\ idx \in DOMAIN updaters
  /\ errors = <<>>
  /\ invoked = <<>>
  /\ exitCode = -1
  /\ run = NoRun
  /\ prev = NoRun
  /\ runNo = 1
  /\ faults = 1

\* an earlier process run in which the updater completed
EarlierRun ==
  LET e == Call(idx, meta, tables, feed, today, NoFault)
  IN /\ pc = "start"
     /\ pc' = "ready"
     /\ meta' = e.meta
     /\ tables' = e.tables
     /\ run' = LogOf(e, NoFault)
     /\ UNCHANGED <<today, feed, idx, errors, invoked, exitCode, prev, runNo, faults>>

\* the next day begins; the upstream may have published one record more
Tomorrow ==
  /\ pc \in {"ready", "crashed"}
  /\ today + 1 \in Days
  /\ today' = today + 1
  /\ feed' \in {s \in NextFeeds(feed) : Len(s) >= Len(feed) /\ Published(s, today')}
  /\ UNCHANGED <<meta, tables, pc, idx, errors, invoked, exitCode, run, prev, runNo, faults>>

\* the process is killed between upsert_batch (line 125) and set_last_date
\* (line 126) of the updater
CrashedRun ==
  LET e == Call(idx, meta, tables, feed, today, CrashFault)
  IN /\ pc \in {"start", "ready"}
     /\ faults > 0
     /\ e # Call(idx, meta, tables, feed, today, NoFault)
     /\ faults' = faults - 1
     /\ pc' = "crashed"
     /\ meta' = e.meta
     /\ tables' = e.tables
     /\ run' = LogOf(e, CrashFault)
     /\ prev' = LogOf(e, CrashFault)
     /\ UNCHANGED <<today, feed, idx, errors, invoked, exitCode, runNo>>

\* the next process run invokes the updater again
Recovery ==
  LET e == Call(idx, meta, tables, feed, today, NoFault)
  IN /\ pc = "crashed"
     /\ pc' = "recovered"
     /\ runNo' = runNo + 1
     /\ meta' = e.meta
     /\ tables' = e.tables
     /\ run' = LogOf(e, NoFault)
     /\ UNCHANGED <<today, feed, idx, errors, invoked, exitCode, prev, faults>>

NextCrash ==
  \/ EarlierRun
  \/ Tomorrow
  \/ CrashedRun
  \/ Recovery

SpecCrash == InitCrash /\ [][NextCrash]_vars

-----------------------------------------------------------------------------
(* Properties *)

Ops(io, op) == SelectSeq(io, LAMBDA e : e.op = op)

\* the invocation logged in `run` wrote nothing: no table, no watermark
WroteNothing ==
  /\ tables = run.tablesBefore
  /\ meta = run.metaBefore
  /\ Ops(run.io, "upsert") = <<>>
  /\ Ops(run.io, "set_last_date") = <<>>

\* the watermark the logged invocation found stored for its source
MarkBefore == run.metaBefore[SourceOf(run.name)]

\* the updaters that compute their window with incremental_dates
Incremental == {"moex_stock_history", "index_history/IMOEX", "index_history/RTSI",
                "currency_history", "trading_volumes"}

\* the sources C1 names
WindowedByClaim == Incremental \cup {"brent_history", "global_exchanges", "world_bank",
                                     "moex_dividends", "moex_live"}

WindowRule ==
  /\ run.window = [from_ |-> MarkBefore + 1, to |-> today]
  /\ MarkBefore + 1 > today => Ops(run.io, "GET") = <<>> /\ meta = run.metaBefore

\* C1 (as stated): for every source with a stored watermark D the window of the
\* next run is [D+1, today], and when D+1 > today there is no network request and
\* the watermark is unchanged
C1_WindowAllSources ==
  (run.name \in WindowedByClaim /\ MarkBefore # NoDate) => WindowRule

\* C1 (amended): the same, for the sources that use incremental_dates
C1_WindowIncremental ==
  (run.name \in Incremental /\ MarkBefore # NoDate) => WindowRule

C1_Witness ==
  /\ run.name \in Incremental
  /\ MarkBefore # NoDate
  /\ MarkBefore + 1 > today
  /\ run.skipped

\* C2: the last_date stored for a source never decreases
C2_MarkNeverDecreases ==
  [][\A s \in Sources : meta'[s] >= meta[s]]_vars

\* C3: in one run of main every updater is invoked exactly once, in list order,
\* whichever of the earlier ones raised
C3_AllInvokedInOrder ==
  /\ Len(invoked) <= Len(updaters)
  /\ \A k \in DOMAIN invoked : invoked[k].name = updaters[k]
  /\ pc = "exited" => Len(invoked) = Len(updaters)

\* the first updater raised and the last one still seeded its table
C3_Witness ==
  /\ pc = "exited"
  /\ invoked[1].raised
  /\ ~ invoked[Len(updaters)].raised
  /\ tables["key_rates"] # {}

Raisers == SelectSeq(invoked, LAMBDA c : c.raised)

\* C4: when main finishes, the failure list is the names of the updaters that
\* raised, once each in invocation order, and the exit code is 1 iff it is not empty
C4_FailureListAndExit ==
  pc = "exited" =>
    /\ Len(errors) = Len(Raisers)
    /\ \A k \in DOMAIN errors : errors[k] = Raisers[k].name
    /\ exitCode = (IF \E k \in DOMAIN invoked : invoked[k].raised THEN 1 ELSE 0)

\* two updaters raised, the others did not
C4_Witness ==
  /\ pc = "exited"
  /\ exitCode = 1
  /\ errors = <<"moex_live", "trading_volumes">>

\* C5: an invocation in which a request, the parsing or a batch write failed
\* leaves the meta row of its source as it was
C5_NoMarkAfterFailure ==
  (run.name # "" /\ run.fault # NoFault) => meta = run.metaBefore

RowDates(rows) == {rows[k].d : k \in DOMAIN rows}

\* C6: an invocation that produced rows and completed writes as watermark the
\* maximum date of the rows it upserted
C6_MarkIsMaxDate ==
  (run.name # "" /\ ~ run.raised /\ run.rows # <<>>) =>
    /\ meta[SourceOf(run.name)] \in RowDates(run.rows)
    /\ \A d \in RowDates(run.rows) : d <= meta[SourceOf(run.name)]

\* C7: an invocation whose fetch and parse produce no row writes neither the data
\* table nor the watermark
C7_NoRowsNoWrite ==
  (run.name # "" /\ ~ run.raised /\ run.rows = <<>>) => WroteNothing

\* brent_history fetched the file and found nothing newer than its watermark
C7_Witness ==
  /\ run.name = "brent_history"
  /\ MarkBefore # NoDate
  /\ Ops(run.io, "GET") # <<>>
  /\ ~ run.raised
  /\ run.rows = <<>>
  /\ feed # <<>>

\* C8: an updater run again with nothing new upstream leaves the data tables and
\* its watermark as the first run left them
C8_Idempotent ==
  (run.name # "" /\ run.repeat /\ run.fault = NoFault) =>
    /\ tables = run.tablesBefore
    /\ meta = run.metaBefore

\* the records the upstream holds for the window of the logged fetch
Served == Window(feed, run.window.from_, run.window.to)

\* C9: after k full pages and one short or empty page the fetcher has issued
\* exactly the requests at offsets 0, 100, ..., 100k, with one pacing delay after
\* each full page and none after the last request
C9_PaginationRequests ==
  (pc = "fetched" /\ run.fault = NoFault) =>
    /\ ~ run.raised
    /\ run.io = [j \in 1..(2 * (Len(Served) \div MOEX_PAGE_SIZE) + 1) |->
                   IF j % 2 = 1 THEN Get(((j - 1) \div 2) * MOEX_PAGE_SIZE)
                   ELSE Sleep("MOEX_DELAY")]

\* two full pages and an empty one
C9_Witness ==
  /\ pc = "fetched"
  /\ run.fault = NoFault
  /\ Len(Served) = 2 * MOEX_PAGE_SIZE
  /\ Len(Ops(run.io, "GET")) = 3

Accepted == SelectSeq(Served, LAMBDA r : r.val # NoVal /\ r.val[1] > 0)

\* C10: the list returned is the accepted records of all fetched pages, in
\* upstream order, none lost, duplicated or reordered
C10_RowsInUpstreamOrder ==
  (pc = "fetched" /\ run.fault = NoFault) =>
    run.rows = [j \in 1..Len(Accepted) |-> Accepted[j].date]

\* several pages served newest first, some records rejected
C10_Witness ==
  /\ pc = "fetched"
  /\ run.fault = NoFault
  /\ Len(Served) > MOEX_PAGE_SIZE
  /\ Served[1].date > Served[2].date
  /\ Len(run.rows) > MOEX_PAGE_SIZE
  /\ Len(run.rows) < Len(Served)

Writes == Ops(run.io, "upsert")

\* C11: upsert_batch on n rows issues ceil(n / 500) writes, all but the last of
\* 500 rows, the last of the rest, which concatenated in order are the input; a
\* pacing delay stands between two writes and nowhere else; no row, no write and
\* no delay
C11_UpsertBatching ==
  (pc = "upserted" /\ run.fault = NoFault) =>
    LET n == Len(run.rows)
        c == (n + BATCH_SIZE - 1) \div BATCH_SIZE
    IN /\ ~ run.raised
       /\ Len(Writes) = c
       /\ \A j \in 1..c :
            Len(Writes[j].rows) = IF j < c THEN BATCH_SIZE ELSE n - BATCH_SIZE * (c - 1)
       /\ \A i \in 1..n :
            Writes[((i - 1) \div BATCH_SIZE) + 1].rows[((i - 1) % BATCH_SIZE) + 1] = run.rows[i]
       /\ Len(run.io) = IF c = 0 THEN 0 ELSE 2 * c - 1
       /\ \A j \in DOMAIN run.io :
            run.io[j].op = IF j % 2 = 1 THEN "upsert" ELSE "sleep"
       /\ tables["moex_stock_history"] =
            run.tablesBefore["moex_stock_history"] \cup Range(run.rows)

\* 1200 rows: writes of 500, 500 and 200 rows
C11_Witness ==
  /\ pc = "upserted"
  /\ run.fault = NoFault
  /\ Len(run.rows) = 2 * BATCH_SIZE + 200
  /\ Len(Writes) = 3
  /\ Len(Writes[3].rows) = 200
  /\ Len(Ops(run.io, "sleep")) = 2

\* C12: update_key_rates writes the seed and the watermark only when it finds
\* the key_rates table empty, and writes nothing when the table holds a row; the
\* table is empty or holds exactly the seed, so that over any number of
\* invocations the seed write that succeeds is the only one
C12_SeedOnlyWhenEmpty ==
  /\ tables["key_rates"] \in {{}, Range(SeedRows)}
  /\ run.name = "key_rates" =>
       /\ run.tablesBefore["key_rates"] # {} => WroteNothing
       /\ (run.tablesBefore["key_rates"] = {} /\ ~ run.raised) =>
            /\ Len(Writes) = 1
            /\ Writes[1].rows = SeedRows
            /\ Ops(run.io, "set_last_date") =
                 <<WriteMark("key_rates", KEY_RATE_SEED[KeyRateSeedLen])>>
            /\ tables["key_rates"] = Range(SeedRows)
            /\ meta["key_rates"] = KEY_RATE_SEED[KeyRateSeedLen]

\* the second process run finds the table seeded by the first
C12_Witness ==
  /\ runNo = 2
  /\ run.name = "key_rates"
  /\ run.tablesBefore["key_rates"] = Range(SeedRows)
  /\ run.skipped
  /\ meta["key_rates"] = KEY_RATE_SEED[KeyRateSeedLen]

\* C13: a record whose primary value is null, zero or negative is not in the
\* fetcher's output, and every valid record is, whichever records before it on
\* its page or on earlier pages were rejected
C13_RejectionFiltering ==
  (pc = "fetched" /\ run.fault = NoFault) =>
    LET out == Range(run.rows)
    IN \A i \in DOMAIN Served :
         (Served[i].date \in out) <=> ~ Rejected(Served[i].val)

\* the first page holds a null, a zero and a negative value; the last record, on
\* a later page, is valid and returned
C13_Witness ==
  /\ pc = "fetched"
  /\ run.fault = NoFault
  /\ Len(Served) > MOEX_PAGE_SIZE
  /\ {NoVal, Val(0), Val(-1)} \subseteq {Served[i].val : i \in 1..MOEX_PAGE_SIZE}
  /\ ~ Rejected(Last(Served).val)
  /\ Last(Served).date \in Range(run.rows)

\* the sources that fetch the whole series or file and filter locally
AppendOnly == {"brent_history", "global_exchanges", "world_bank"}

\* C14: every row an append-only source passes to the upsert sink is dated
\* strictly after the watermark stored when the invocation began
C14_RowsNewerThanMark ==
  run.name \in AppendOnly =>
    \A j \in DOMAIN Writes : \A i \in DOMAIN Writes[j].rows :
      Writes[j].rows[i].d > MarkBefore

\* the items of the two multi-item updaters and the rows one item yields
ItemsOf(name) == IF name = "world_bank" THEN indicators ELSE exchanges

ItemRows(name, item) ==
  IF name = "world_bank"
  THEN Rows(item, NotNull(Window(feed, DEFAULT_FROM, today)))
  ELSE Rows(item, ParseLines(Window(feed, run.window.from_, today)).dates)

\* C15: when the request of one indicator or exchange fails, or the parse of an
\* exchange's lines fails, the updater does not raise, every item is still
\* requested, the item whose request failed yields no row, every other item yields
\* the rows it yields when no request fails, and these rows are upserted
C15_PartialItemFailure ==
  (run.name \in {"world_bank", "global_exchanges"} /\ run.fault.kind # "write") =>
    LET items == ItemsOf(run.name)
    IN /\ ~ run.raised
       /\ Len(Ops(run.io, "GET")) = Len(items)
       /\ \A n \in DOMAIN items :
            SelectSeq(run.rows, LAMBDA r : r.k = items[n]) =
              IF n = run.fault.at THEN <<>> ELSE ItemRows(run.name, items[n])
       /\ run.rows # <<>> =>
            /\ Len(Writes) = 1
            /\ Writes[1].rows = run.rows
            /\ Range(run.rows) \subseteq tables[SourceOf(run.name)]

\* the request for the second exchange failed; the first and the last exchange
\* delivered rows, which are stored
C15_Witness ==
  /\ run.name = "global_exchanges"
  /\ run.fault = HttpFault(2)
  /\ \E d \in Days :
       {Row(exchanges[1], d), Row(exchanges[5], d)} \subseteq tables["global_exchanges"]
         /\ Row(exchanges[2], d) \notin tables["global_exchanges"]
  /\ ~ run.raised

\* what the updater under test leaves when it runs uninterrupted, on today's
\* upstream, from the state the interrupted invocation found
Uninterrupted == Call(idx, prev.metaBefore, prev.tablesBefore, feed, today, NoFault)

\* C16: after an invocation killed between its data upsert and its watermark
\* write, the next invocation starts its window where the interrupted one did,
\* fetches and upserts again, and leaves the tables and the watermark an
\* uninterrupted invocation leaves
C16_CrashRecovery ==
  pc = "recovered" =>
    /\ run.window.from_ = prev.window.from_
    /\ Writes # <<>>
    /\ tables = Uninterrupted.tables
    /\ meta = Uninterrupted.meta

\* the positions of the operations `op` in the I/O of an invocation
Positions(io, op) == {j \in DOMAIN io : io[j].op = op}

\* C17: an invocation reads the watermark at most once and before every network
\* request, writes it at most once and after every batch write, and writes it
\* only if it produced rows
C17_MarkLifecycle ==
  run.name # "" =>
    LET reads == Positions(run.io, "get_last_date")
        marks == Positions(run.io, "set_last_date")
        batches == Positions(run.io, "upsert") \cup Positions(run.io, "upsert_failed")
    IN /\ Cardinality(reads) <= 1
       /\ \A r \in reads : \A g \in Positions(run.io, "GET") : r < g
       /\ Cardinality(marks) <= 1
       /\ \A w \in marks : \A u \in batches : u < w
       /\ marks # {} => run.rows # <<>> /\ Positions(run.io, "upsert") # {}
       /\ marks = {} => meta = run.metaBefore

\* an invocation that read the watermark, fetched, upserted and wrote the watermark
C17_Witness ==
  /\ run.name = "moex_stock_history"
  /\ run.metaBefore["moex_stock_history"] # NoDate
  /\ Positions(run.io, "get_last_date") = {1}
  /\ Positions(run.io, "GET") # {}
  /\ Positions(run.io, "upsert") # {}
  /\ Positions(run.io, "set_last_date") = {Len(run.io)}

\* the page the upstream holds at offset j * 100 for the window of the logged fetch
PageAt(j) == UpstreamPage(feed, run.window.from_, run.window.to, j * MOEX_PAGE_SIZE)

\* C18: the fetcher requests offset j * 100 exactly when every page before it
\* held 100 records, whether or not any of them was valid
C18_RawCountDecides ==
  (pc = "fetched" /\ run.fault = NoFault) =>
    \A j \in 0..(MaxPages + 1) :
      (Get(j * MOEX_PAGE_SIZE) \in Range(run.io))
        <=> (\A i \in 0..(j - 1) : Len(PageAt(i)) = MOEX_PAGE_SIZE)

\* the first page is full and all its records are rejected; the next offset is
\* requested and its valid records are returned
C18_Witness ==
  /\ pc = "fetched"
  /\ run.fault = NoFault
  /\ Len(PageAt(0)) = MOEX_PAGE_SIZE
  /\ \A i \in 1..MOEX_PAGE_SIZE : Rejected(PageAt(0)[i].val)
  /\ Get(MOEX_PAGE_SIZE) \in Range(run.io)
  /\ run.rows # <<>>

\* the updaters that store a dated upstream series, the table and the key
\* qualifiers each writes, and the records each accepts
Dated == {"moex_stock_history", "moex_dividends", "index_history/IMOEX",
          "index_history/RTSI", "currency_history", "brent_history",
          "trading_volumes", "world_bank", "global_exchanges"}

TableOf(name) ==
  CASE name \in {"index_history/IMOEX", "index_history/RTSI"} -> "index_history"
    [] name = "world_bank" -> "world_bank_indicators"
    [] OTHER -> name

KeysOf(name) ==
  CASE name = "index_history/IMOEX" -> {"IMOEX"}
    [] name = "index_history/RTSI" -> {"RTSI"}
    [] name = "currency_history" -> {"USD/RUB"}
    [] name = "world_bank" -> Range(indicators)
    [] name = "global_exchanges" -> Range(exchanges)
    [] OTHER -> {""}

ValidFor(name, v) ==
  CASE name = "currency_history" -> TRUE
    [] name = "world_bank" -> v # NoVal
    [] name = "moex_dividends" -> v # NoVal /\ v[1] # 0
    [] OTHER -> ~ Rejected(v)

\* C19: every valid upstream record of a source dated on or before the source's
\* stored watermark is in the source's data table
C19_NoGapBehindMark ==
  \A name \in Dated : \A j \in DOMAIN feed :
    (ValidFor(name, feed[j].val) /\ feed[j].date >= DEFAULT_FROM
       /\ feed[j].date <= meta[SourceOf(name)]) =>
      \A key \in KeysOf(name) : Row(key, feed[j].date) \in tables[TableOf(name)]

\* C20: when the request for a page fails after earlier pages were fetched, a
\* paginated updater raises, writes neither its data table nor its watermark, and
\* has requested every page offset once
C20_AllOrNothingFetch ==
  (pc = "updated" /\ run.fault.kind = "http") =>
    LET gets == Ops(run.io, "GET")
    IN /\ run.raised
       /\ WroteNothing
       /\ run.rows = <<>>
       /\ Len(gets) = run.fault.at
       /\ \A i, j \in DOMAIN gets : i # j => gets[i].start # gets[j].start

\* the request for the third page failed after two pages with valid records
C20_Witness ==
  /\ pc = "updated"
  /\ run.fault = HttpFault(3)
  /\ Len(Ops(run.io, "GET")) = 3
  /\ \E i \in 1..MOEX_PAGE_SIZE : ~ Rejected(PageAt(0)[i].val)
  /\ run.raised
  /\ tables = run.tablesBefore

====
